---- MODULE Spec2Model ----
(***************************************************************************)
(* Model of the NCloud Music provider (ncloud_music/__init__.py):          *)
(*   - NCloudMusicProvider.get_stream_details: the stream resolver         *)
(*     (quality-ladder probes, preview retention, rescue merge);           *)
(*   - NCloudMusicProvider._api_request: the HTTP layer;                   *)
(*   - _qr_code_login_flow: the QR login polling loop.                     *)
(*                                                                         *)
(* Encoding of Python/JSON values:                                         *)
(*   - a dict is a function whose domain is the set of keys present;       *)
(*   - Python None in a dict-typed variable is the record None;            *)
(*   - a URL is an integer: NoneUrl (-1) is None/absent, 0 is the empty    *)
(*     string, n > 0 is the n-th distinct non-empty URL;                   *)
(*   - a JSON value whose shape matters is tagged: [t |-> "list", v |-> s],*)
(*     [t |-> "dict", v |-> d], [t |-> "null"].                            *)
(***************************************************************************)
EXTENDS Integers, Sequences, FiniteSets, TLC

----------------------------------------------------------------------------
(* Bounds of the model *)

\* number of distinct non-empty URLs the upstream may return
MaxUrl == 2
\* number of leading check codes of a login run kept in the history
MaxHist == 4

----------------------------------------------------------------------------
(* Python values *)

None == [pynone |-> TRUE]
EmptyDict == [k \in {} |-> 0]
NoneUrl == -1
NoneInt == -1

\* dict.get(k, default)
Get(d, k, default) == IF k \in DOMAIN d THEN d[k] ELSE default

\* truthiness of a dict-or-None variable
DictTruthy(d) == d # None /\ DOMAIN d # {}

\* truthiness of a URL (None and "" are falsy)
UrlTruthy(u) == u > 0

\* truthiness of a tagged JSON value
JTruthy(j) ==
    CASE j.t = "list" -> Len(j.v) > 0
      [] j.t = "dict" -> DOMAIN j.v # {}
      [] OTHER -> FALSE

JNull == [t |-> "null"]
JList(s) == [t |-> "list", v |-> s]
JDict(d) == [t |-> "dict", v |-> d]

\* str.lower() on the container tags the model uses
Lower(s) ==
    CASE s = "FLAC" -> "flac"
      [] s = "MP3" -> "mp3"
      [] s = "M4A" -> "m4a"
      [] s = "Flac" -> "flac"
      [] OTHER -> s

----------------------------------------------------------------------------
(* Program constants *)

all_levels ==
    << "jymaster", "dolby", "sky", "jyeffect",
       "hires", "lossless", "exhigh", "higher", "standard" >>

default_levels == << "exhigh", "higher", "standard" >>

RescueSource == "pyncmd,bodian,kuwo"

DefaultBr == 128000
DefaultType == "mp3"
DefaultSr == 44100
BitDepthThreshold == 1000000

\* list.index(x): position of the first occurrence, 0 when it raises ValueError
IndexOf(s, x) ==
    IF \E i \in 1..Len(s) : s[i] = x
    THEN CHOOSE i \in 1..Len(s) : s[i] = x /\ \A j \in 1..(i-1) : s[j] # x
    ELSE 0

\* a plausible slip: the slice starts one level below the configured one
LevelsForOffByOne(q) ==
    LET start_index == IndexOf(all_levels, q)
    IN IF start_index # 0
       THEN SubSeq(all_levels, start_index + 1, Len(all_levels))
       ELSE default_levels

\* levels computed from the configured quality (try / except ValueError)
LevelsFor(q) ==
    LET start_index == IndexOf(all_levels, q)
    IN IF start_index # 0
       THEN SubSeq(all_levels, start_index, Len(all_levels))
       ELSE default_levels

----------------------------------------------------------------------------
(* Inputs: configured quality and upstream responses *)

\* the nine ladder entries, an unrecognized value, and an absent value
Configs == { all_levels[i] : i \in 1..Len(all_levels) } \cup {"bogus", "<none>"}

Urls == 0..MaxUrl

Opt(k, vals) == {EmptyDict} \cup { k :> v : v \in vals }

\* payload of one entry of /song/url/v1 "data"
ProbeCandidates ==
    { u @@ f @@ t @@ b @@ s @@ d :
        u \in Opt("url", Urls),
        f \in Opt("freeTrialInfo", {TRUE}),
        t \in Opt("type", {"flac"}),
        b \in Opt("br", {1200000}),
        s \in Opt("sr", {48000}),
        d \in Opt("time", {200000}) }

\* payload of /song/url/match "data"
MatchCandidates ==
    { u @@ t @@ b @@ s @@ m @@ x :
        u \in Opt("url", Urls),
        t \in Opt("type", {"m4a"}),
        b \in Opt("br", {320000}),
        s \in Opt("size", {5}),
        m \in Opt("md5", {"m"}),
        x \in {EmptyDict, [sr |-> 96000, time |-> 100000]} }

\* what the network gives back for one GET: a transport error, a body that
\* is not JSON, a JSON body that is not an object, or a JSON object
RawFailures ==
    { [kind |-> "transport_error"], [kind |-> "parse_error"],
      [kind |-> "json", body |-> JList(<< >>)] }

ProbeBodies ==
    { [code |-> 200, data |-> JList(<< JDict(c) >>)] : c \in ProbeCandidates }
    \cup { [code |-> 200, data |-> JList(<< >>)],
           [code |-> 200, data |-> JNull],
           [code |-> 200, data |-> JDict(EmptyDict)],
           [code |-> 200],
           [code |-> 404, data |-> JList(<< JDict([url |-> 1]) >>)],
           [data |-> JList(<< JDict([url |-> 1]) >>)],
           \* malformed shapes of a 200 payload
           [code |-> 200, data |-> JDict([url |-> 1])],
           [code |-> 200, data |-> JList(<< JNull >>)] }

ProbeResponses == RawFailures \cup { [kind |-> "json", body |-> JDict(b)] : b \in ProbeBodies }

MatchBodies ==
    { [code |-> 200, data |-> JDict(c)] : c \in MatchCandidates }
    \cup { [code |-> 200, data |-> JNull],
           [code |-> 200],
           [code |-> 404, data |-> JDict([url |-> 1])],
           [code |-> 200, data |-> JList(<< JDict([url |-> 1]) >>)] }

MatchResponses == RawFailures \cup { [kind |-> "json", body |-> JDict(b)] : b \in MatchBodies }

----------------------------------------------------------------------------
(* _api_request: the HTTP layer *)

\* a plausible slip: no try / except, the exception leaves _api_request
ApiRequestNoCatch(raw) ==
    IF raw.kind = "json" /\ raw.body.t = "dict"
    THEN raw.body.v
    ELSE [raised |-> raw.kind]

\* the dict _api_request returns for a raw response: the parsed object, or
\* {"code": -1, "error": ...} when anything inside the try block raised
\* (transport error, resp.json() failure, data.get on a non-dict)
ApiRequest(raw) ==
    IF raw.kind = "json" /\ raw.body.t = "dict"
    THEN raw.body.v
    ELSE [code |-> -1, error |-> raw.kind]

\* data.get("code") == 200 and data.get("data")
IsOk(data) ==
    /\ "code" \in DOMAIN data
    /\ data["code"] = 200
    /\ "data" \in DOMAIN data
    /\ JTruthy(data["data"])

----------------------------------------------------------------------------
(* State *)

VARIABLES
    pc,             \* position of the run
    quality_config, \* self.config.get_value(CONF_AUDIO_QUALITY)
    levels,         \* the probe sequence
    idx,            \* number of levels the for loop has taken
    song_data,      \* dict the result is built from (None until set)
    url,
    is_free_trial,
    requests,       \* every request issued, in order
    outstanding,    \* number of requests awaiting their response
    match_data,     \* payload of the rescue response (None until one is ok)
    outcome,        \* "running", "stream", "ValueError", "KeyError", "AttributeError"
    stream,         \* the StreamDetails returned (None until returned)
    \* history of the run
    retained,       \* the candidate song_data was taken from, as the probe returned it
    accepted,       \* a full candidate was accepted (the loop took its break)
    seen_url,       \* some probed candidate carried a non-empty URL
    first_preview,  \* the first preview candidate a probe returned (None until one)
    all_preview,    \* every probe answered so far returned a preview candidate
    \* QR login flow
    qpc,            \* position of the login flow
    qvalues,        \* the values dict handed to the flow
    qr_key,         \* unikey returned by /login/qr/key
    qr_url,         \* qrurl returned by /login/qr/create
    qi,             \* number of check answers handled (the loop's i while it sleeps or waits)
    qrequests,      \* every login request issued, in order
    qresult,        \* what the flow returned ("<running>" until it returns)
    qhist,          \* codes of the first MaxHist check polls
    qlast,          \* the last check response (None before the first)
    qclean,         \* every check poll before the last returned 801 or 802
    qfail,          \* why the flow failed ("" while it has not)
    qkey_raw,       \* the response to /login/qr/key (None before it)
    qcreate_raw,    \* the response to /login/qr/create (None before it)
    \* a function of the provider applied to one input
    arg,            \* the input (None when no function is under study)
    ret,            \* its result (None until it has been applied)
    \* concurrent resolve runs
    conc,
    \* get_config_entries handling the QR-login action
    config_values   \* the values dict before and after the handler stored the
                    \* flow's result (empty until the flow has returned)

resolveVars ==
    << pc, quality_config, levels, idx, song_data, url, is_free_trial,
       requests, outstanding, match_data, outcome, stream,
       retained, accepted, seen_url, first_preview, all_preview >>

qrVars ==
    << qpc, qvalues, qr_key, qr_url, qi, qrequests, qresult, qhist, qlast, qclean, qfail,
       qkey_raw, qcreate_raw >>

pureVars == << arg, ret >>

concVars == << conc >>

configVars == << config_values >>

vars == << resolveVars, qrVars, pureVars, concVars, configVars >>

----------------------------------------------------------------------------
(* get_stream_details: format classification and the returned StreamDetails *)

ContentTypeOf(file_type) ==
    CASE file_type = "mp3" -> "MP3"
      [] file_type = "flac" -> "FLAC"
      [] file_type = "m4a" -> "AAC"
      [] OTHER -> "UNKNOWN"

\* a plausible slip: the threshold itself already counts as 24 bit
BitDepthOfInclusive(file_type, bit_rate) ==
    IF file_type = "flac" /\ bit_rate >= BitDepthThreshold THEN 24 ELSE 16

BitDepthOf(file_type, bit_rate) ==
    IF file_type = "flac" /\ bit_rate > BitDepthThreshold THEN 24 ELSE 16

\* the StreamDetails built from song_data and url
StreamDetailsOf(sd, u) ==
    LET file_type == Lower(Get(sd, "type", ""))
        bit_rate == Get(sd, "br", 0)
        time == Get(sd, "time", 0)
    IN [ path |-> u,
         content_type |-> ContentTypeOf(file_type),
         sample_rate |-> Get(sd, "sr", DefaultSr),
         bit_depth |-> BitDepthOf(file_type, bit_rate),
         bit_rate |-> IF bit_rate # 0 THEN bit_rate \div 1000 ELSE NoneInt,
         duration |-> IF time # 0 THEN time \div 1000 ELSE NoneInt ]

\* the final check: raise ValueError when there is no URL, else return
FinalOutcome(u) == IF UrlTruthy(u) THEN "stream" ELSE "ValueError"

FinalStream(sd, u) == IF UrlTruthy(u) THEN StreamDetailsOf(sd, u) ELSE None

\* a plausible slip: song_data.update(match_data) before the five assignments
MergeRescueUpdate(sd, md) ==
    LET base == IF DictTruthy(sd) THEN sd ELSE EmptyDict
    IN ( "url" :> md["url"]
         @@ "br" :> Get(md, "br", Get(base, "br", DefaultBr))
         @@ "type" :> Get(md, "type", Get(base, "type", DefaultType))
         @@ "size" :> Get(md, "size", Get(base, "size", 0))
         @@ "md5" :> Get(md, "md5", Get(base, "md5", "")) )
       @@ md @@ base

\* a plausible slip: the rescue result is substituted, nothing is backfilled
MergeRescueSubstitute(sd, md) ==
    LET base == IF DictTruthy(sd) THEN sd ELSE EmptyDict
    IN ( "url" :> md["url"]
         @@ "br" :> Get(md, "br", DefaultBr)
         @@ "type" :> Get(md, "type", DefaultType)
         @@ "size" :> Get(md, "size", 0)
         @@ "md5" :> Get(md, "md5", "") )
       @@ base

\* the rescue merge: song_data after a rescue response with a URL
\* (song_data is updated in place; an empty dict is used when it was unset)
MergeRescue(sd, md) ==
    LET base == IF DictTruthy(sd) THEN sd ELSE EmptyDict
    IN ( "url" :> md["url"]
         @@ "br" :> Get(md, "br", Get(base, "br", DefaultBr))
         @@ "type" :> Get(md, "type", Get(base, "type", DefaultType))
         @@ "size" :> Get(md, "size", Get(base, "size", 0))
         @@ "md5" :> Get(md, "md5", Get(base, "md5", "")) )
       @@ base

\* a plausible slip: a retained preview with a URL is taken as good enough
NeedsRescueUrlOnly(u, trial) == ~UrlTruthy(u)

\* the loop's "if not url or is_free_trial" after probing
NeedsRescue(u, trial) == ~UrlTruthy(u) \/ trial

----------------------------------------------------------------------------
(* get_stream_details: the resolve run *)

ProbeRequest(level) == [endpoint |-> "/song/url/v1", level |-> level]
MatchRequest == [endpoint |-> "/song/url/match", source |-> RescueSource]

\* levels = all_levels[start_index:], or the default on ValueError
ComputeLevels ==
    /\ pc = "start"
    /\ levels' = LevelsFor(quality_config)
    /\ pc' = "loop"
    /\ UNCHANGED << quality_config, idx, song_data, url, is_free_trial, requests,
                    outstanding, match_data, outcome, stream, retained, accepted,
                    seen_url, first_preview, all_preview >>
    /\ UNCHANGED << qrVars, pureVars, concVars, configVars >>

\* a plausible slip: the probes of all levels are issued at once (gather)
IssueProbeAll ==
    /\ pc = "loop"
    /\ idx < Len(levels)
    /\ idx' = Len(levels)
    /\ requests' = requests \o [i \in 1..(Len(levels) - idx) |-> ProbeRequest(levels[idx + i])]
    /\ outstanding' = outstanding + (Len(levels) - idx)
    /\ pc' = "await_probe"
    /\ UNCHANGED << quality_config, levels, song_data, url, is_free_trial,
                    match_data, outcome, stream, retained, accepted, seen_url,
                    first_preview, all_preview >>
    /\ UNCHANGED << qrVars, pureVars, concVars, configVars >>

\* for level in levels: data = await self._api_request("/song/url/v1", ...)
IssueProbe ==
    /\ pc = "loop"
    /\ idx < Len(levels)
    /\ idx' = idx + 1
    /\ requests' = Append(requests, ProbeRequest(levels[idx + 1]))
    /\ outstanding' = outstanding + 1
    /\ pc' = "await_probe"
    /\ UNCHANGED << quality_config, levels, song_data, url, is_free_trial,
                    match_data, outcome, stream, retained, accepted, seen_url,
                    first_preview, all_preview >>
    /\ UNCHANGED << qrVars, pureVars, concVars, configVars >>

\* a plausible slip: every preview replaces the one retained before
ProbeBodyLastPreview(data, sd, u, trial) ==
    LET keep == [exc |-> "", brk |-> FALSE, sd |-> sd, u |-> u, trial |-> trial]
    IN IF ~IsOk(data) THEN keep
       ELSE IF data["data"].t = "dict"
            THEN [keep EXCEPT !.exc = "KeyError"]          \* data["data"][0] on a dict
       ELSE IF data["data"].v[1].t # "dict"
            THEN [keep EXCEPT !.exc = "AttributeError"]    \* temp_data.get on a non-dict
       ELSE LET temp_data == data["data"].v[1].v
                temp_url == Get(temp_data, "url", NoneUrl)
            IN IF Get(temp_data, "freeTrialInfo", FALSE)
               THEN [keep EXCEPT !.sd = temp_data, !.u = temp_url, !.trial = TRUE]
               ELSE IF UrlTruthy(temp_url)
                    THEN [keep EXCEPT !.sd = temp_data, !.u = temp_url,
                                      !.trial = FALSE, !.brk = TRUE]
                    ELSE keep

\* a plausible slip: is_free_trial is not cleared when a full candidate is taken
ProbeBodyKeepsTrialFlag(data, sd, u, trial) ==
    LET keep == [exc |-> "", brk |-> FALSE, sd |-> sd, u |-> u, trial |-> trial]
    IN IF ~IsOk(data) THEN keep
       ELSE IF data["data"].t = "dict"
            THEN [keep EXCEPT !.exc = "KeyError"]          \* data["data"][0] on a dict
       ELSE IF data["data"].v[1].t # "dict"
            THEN [keep EXCEPT !.exc = "AttributeError"]    \* temp_data.get on a non-dict
       ELSE LET temp_data == data["data"].v[1].v
                temp_url == Get(temp_data, "url", NoneUrl)
            IN IF Get(temp_data, "freeTrialInfo", FALSE)
               THEN IF ~DictTruthy(sd)
                    THEN [keep EXCEPT !.sd = temp_data, !.u = temp_url, !.trial = TRUE]
                    ELSE [keep EXCEPT !.trial = TRUE]
               ELSE IF UrlTruthy(temp_url)
                    THEN [keep EXCEPT !.sd = temp_data, !.u = temp_url, !.brk = TRUE]
                    ELSE keep

\* what the loop body does with the dict _api_request returned
\* result: the exception it raises ("" when none), whether it breaks,
\* and the new song_data / url / is_free_trial
ProbeBody(data, sd, u, trial) ==
    LET keep == [exc |-> "", brk |-> FALSE, sd |-> sd, u |-> u, trial |-> trial]
    IN IF ~IsOk(data) THEN keep
       ELSE IF data["data"].t = "dict"
            THEN [keep EXCEPT !.exc = "KeyError"]          \* data["data"][0] on a dict
       ELSE IF data["data"].v[1].t # "dict"
            THEN [keep EXCEPT !.exc = "AttributeError"]    \* temp_data.get on a non-dict
       ELSE LET temp_data == data["data"].v[1].v
                temp_url == Get(temp_data, "url", NoneUrl)
            IN IF Get(temp_data, "freeTrialInfo", FALSE)
               THEN IF ~DictTruthy(sd)
                    THEN [keep EXCEPT !.sd = temp_data, !.u = temp_url, !.trial = TRUE]
                    ELSE [keep EXCEPT !.trial = TRUE]
               ELSE IF UrlTruthy(temp_url)
                    THEN [keep EXCEPT !.sd = temp_data, !.u = temp_url,
                                      !.trial = FALSE, !.brk = TRUE]
                    ELSE keep

\* a plausible slip: the loop goes on after a full candidate
AfterProbeNoBreak(exc, brk, i, n) ==
    IF exc # "" THEN "done"
    ELSE IF i = n THEN "after_loop"
    ELSE "loop"

\* where the run is after one iteration: an uncaught exception leaves the
\* function, break or the end of levels leaves the loop
AfterProbe(exc, brk, i, n) ==
    IF exc # "" THEN "done"
    ELSE IF brk \/ i = n THEN "after_loop"
    ELSE "loop"

\* the candidates carried by a raw probe response with code 200 (history only)
CandidateOf(raw) ==
    IF /\ raw.kind = "json"
       /\ raw.body.t = "dict"
       /\ Get(raw.body.v, "code", 0) = 200
       /\ "data" \in DOMAIN raw.body.v
       /\ raw.body.v["data"].t = "list"
       /\ Len(raw.body.v["data"].v) > 0
       /\ raw.body.v["data"].v[1].t = "dict"
    THEN raw.body.v["data"].v[1].v
    ELSE None

IsPreview(c) == c # None /\ "freeTrialInfo" \in DOMAIN c /\ c["freeTrialInfo"]
HasUrl(c) == c # None /\ "url" \in DOMAIN c /\ c["url"] > 0

ProbeResponse ==
    /\ pc = "await_probe"
    /\ \E raw \in ProbeResponses :
         LET data == ApiRequest(raw)
             r == ProbeBody(data, song_data, url, is_free_trial)
             c == CandidateOf(raw)
         IN /\ song_data' = r.sd
            /\ url' = r.u
            /\ is_free_trial' = r.trial
            /\ outcome' = IF r.exc # "" THEN r.exc ELSE outcome
            /\ pc' = AfterProbe(r.exc, r.brk, idx, Len(levels))
            /\ retained' = IF r.sd # song_data THEN c ELSE retained
            /\ accepted' = (accepted \/ (HasUrl(c) /\ ~IsPreview(c)))
            /\ seen_url' = (seen_url \/ HasUrl(c))
            /\ first_preview' = IF first_preview = None /\ IsPreview(c) THEN c ELSE first_preview
            /\ all_preview' = (all_preview /\ IsPreview(c))
    /\ outstanding' = outstanding - 1
    /\ UNCHANGED << quality_config, levels, idx, requests, match_data, stream >>
    /\ UNCHANGED << qrVars, pureVars, concVars, configVars >>

\* if not url or is_free_trial: unblock_data = await self._api_request("/song/url/match", ...)
IssueRescue ==
    /\ pc = "after_loop"
    /\ NeedsRescue(url, is_free_trial)
    /\ requests' = Append(requests, MatchRequest)
    /\ outstanding' = outstanding + 1
    /\ pc' = "await_rescue"
    /\ UNCHANGED << quality_config, levels, idx, song_data, url, is_free_trial,
                    match_data, outcome, stream, retained, accepted, seen_url,
                    first_preview, all_preview >>
    /\ UNCHANGED << qrVars, pureVars, concVars, configVars >>

\* no rescue needed: final check and return
ReturnOfficial ==
    /\ pc = "after_loop"
    /\ ~NeedsRescue(url, is_free_trial)
    /\ outcome' = FinalOutcome(url)
    /\ stream' = FinalStream(song_data, url)
    /\ pc' = "done"
    /\ UNCHANGED << quality_config, levels, idx, song_data, url, is_free_trial,
                    requests, outstanding, match_data, retained, accepted, seen_url,
                    first_preview, all_preview >>
    /\ UNCHANGED << qrVars, pureVars, concVars, configVars >>

\* the rescue response is merged (inside try / except Exception), then the
\* final check and return
RescueResponse ==
    /\ pc = "await_rescue"
    /\ \E raw \in MatchResponses :
         LET unblock_data == ApiRequest(raw)
             ok == IsOk(unblock_data) /\ unblock_data["data"].t = "dict"
             md == IF ok THEN unblock_data["data"].v ELSE None
             match_url == IF ok THEN Get(md, "url", NoneUrl) ELSE NoneUrl
             hit == ok /\ UrlTruthy(match_url)
             sd == IF hit THEN MergeRescue(song_data, md) ELSE song_data
             u == IF hit THEN match_url ELSE url
         IN /\ match_data' = md
            /\ song_data' = sd
            /\ url' = u
            /\ is_free_trial' = IF hit THEN FALSE ELSE is_free_trial
            /\ outcome' = FinalOutcome(u)
            /\ stream' = FinalStream(sd, u)
    /\ outstanding' = outstanding - 1
    /\ pc' = "done"
    /\ UNCHANGED << quality_config, levels, idx, requests, retained, accepted, seen_url,
                    first_preview, all_preview >>
    /\ UNCHANGED << qrVars, pureVars, concVars, configVars >>

ResolveInit ==
    /\ pc = "start"
    /\ quality_config \in Configs
    /\ levels = << >>
    /\ idx = 0
    /\ song_data = None
    /\ url = NoneUrl
    /\ is_free_trial = FALSE
    /\ requests = << >>
    /\ outstanding = 0
    /\ match_data = None
    /\ outcome = "running"
    /\ stream = None
    /\ retained = None
    /\ accepted = FALSE
    /\ seen_url = FALSE
    /\ first_preview = None
    /\ all_preview = TRUE

ResolveNext ==
    \/ ComputeLevels
    \/ IssueProbe
    \/ ProbeResponse
    \/ IssueRescue
    \/ ReturnOfficial
    \/ RescueResponse

----------------------------------------------------------------------------
(* _qr_code_login_flow *)

\* a plausible slip: the loop bound is off by one
MaxPollsPlusOne == 61

\* for i in range(60)
MaxPolls == 60

QNull == "<null>"
QRunning == "<running>"
QRaised == "<raised>"
NoCode == -1

\* str.rstrip("/") on the API URLs the model uses
RstripSlash(s) ==
    CASE s = "/" -> ""
      [] s = "http://api/" -> "http://api"
      [] s = "http://api//" -> "http://api"
      [] OTHER -> s

ApiUrls == {"", "/", "http://api/"}

QValues ==
    { u @@ sid : u \in Opt("api_url", ApiUrls), sid \in Opt("session_id", {"", "sid"}) }

\* the cookie entry of the values dict when the action is handled: none yet,
\* or the cookie of an earlier login
StoredCookies == Opt("cookie", {"OLD"})

\* responses of /login/qr/key
KeyResponses ==
    { [kind |-> "transport_error"], [kind |-> "parse_error"],
      [kind |-> "json", body |-> [code |-> 200, data |-> [unikey |-> "k"]]],
      [kind |-> "json", body |-> [code |-> 200]],
      [kind |-> "json", body |-> [code |-> 500, data |-> [unikey |-> "k"]]] }

\* responses of /login/qr/create
CreateResponses ==
    { [kind |-> "transport_error"], [kind |-> "parse_error"],
      [kind |-> "json", body |-> [code |-> 200]],
      [kind |-> "json", body |-> [code |-> 500, data |-> [qrurl |-> "q"]]] }
    \cup { [kind |-> "json", body |-> [code |-> 200, data |-> d]] :
             d \in Opt("qrurl", {"", "q"}) }

Cookies == {"", "X", "Y"}

\* responses of /login/qr/check
CheckResponses ==
    { [kind |-> "transport_error"], [kind |-> "parse_error"],
      [kind |-> "json", body |-> EmptyDict] }
    \cup { [kind |-> "json", body |-> [code |-> c]] : c \in {800, 801, 802, 502} }
    \cup { [kind |-> "json", body |-> ("code" :> 803) @@ k] : k \in Opt("cookie", Cookies) }
    \cup { [kind |-> "json", body |-> [code |-> c, cookie |-> "X"]] : c \in {800, 801} }

\* code of a check response as the loop sees it (NoCode when the poll raised
\* or the body has no code)
CheckCode(raw) ==
    IF raw.kind = "json" THEN Get(raw.body, "code", NoCode) ELSE NoCode

IsWaitCode(c) == c \in {801, 802}

\* a plausible slip: code 803 is not treated as terminal
CheckDecisionNo803(raw) ==
    IF raw.kind # "json" THEN QRunning
    ELSE LET code == Get(raw.body, "code", NoCode)
         IN IF code = 800 THEN QNull ELSE QRunning

\* a plausible slip: code 800 (expired) is not treated as terminal
CheckDecisionNo800(raw) ==
    IF raw.kind # "json" THEN QRunning
    ELSE LET code == Get(raw.body, "code", NoCode)
         IN IF code = 803
            THEN LET cookie == Get(raw.body, "cookie", "")
                 IN IF cookie # "" THEN cookie ELSE QNull
            ELSE QRunning

\* a plausible slip: 803 without a cookie is taken as "not yet", polling goes on
CheckDecisionEmptyCookieGoesOn(raw) ==
    IF raw.kind # "json" THEN QRunning
    ELSE LET code == Get(raw.body, "code", NoCode)
         IN IF code = 803
            THEN LET cookie == Get(raw.body, "cookie", "")
                 IN IF cookie # "" THEN cookie ELSE QRunning
            ELSE IF code = 800 THEN QNull
            ELSE QRunning

\* what one check poll decides: the value returned, or QRunning to go on
CheckDecision(raw) ==
    IF raw.kind # "json" THEN QRunning            \* except Exception: logged
    ELSE LET code == Get(raw.body, "code", NoCode)
         IN IF code = 803
            THEN LET cookie == Get(raw.body, "cookie", "")
                 IN IF cookie # "" THEN cookie ELSE QNull
            ELSE IF code = 800 THEN QNull
            ELSE QRunning

\* a plausible slip: the outer handler lets the exception through
OuterExceptReraise(exc) == QRaised

\* except Exception as e: around the whole flow: logged, None returned
OuterExcept(exc) == QNull

\* a plausible slip: the cookie value is stored whatever the flow returned
StoreCookieAlways(values, cookie) ==
    ("cookie" :> (IF cookie \notin {QNull, ""} THEN cookie ELSE "")) @@ values

\* get_config_entries after the awaited flow: if cookie: values[CONF_COOKIE] = cookie
StoreCookie(values, cookie) ==
    IF cookie \notin {QNull, ""} THEN ("cookie" :> cookie) @@ values ELSE values

\* the flow returns v to get_config_entries, which goes on at once to store
\* the cookie in the values dict it was called with. The flow reads api_url
\* and session_id only (lines 165-166), so the effect on the dict is recorded
\* for each cookie entry the dict may have held.
QRReturn(v, why) ==
    /\ qresult' = v
    /\ qfail' = why
    /\ qpc' = "done"
    /\ config_values' =
         { [before |-> c @@ qvalues, after |-> StoreCookie(c @@ qvalues, v)] :
             c \in StoredCookies }

QRGoOn(next) ==
    /\ qpc' = next
    /\ qresult' = qresult
    /\ qfail' = qfail
    /\ config_values' = config_values

\* api_url / session_id checks made before any request
QRStart ==
    /\ qpc = "start"
    /\ LET api_url == RstripSlash(Get(qvalues, "api_url", ""))
           session_id == Get(qvalues, "session_id", "")
       IN IF api_url = "" THEN QRReturn(QNull, "no_api_url")
          ELSE IF session_id = "" THEN QRReturn(QNull, "no_session_id")
          ELSE QRGoOn("key")
    /\ UNCHANGED << qvalues, qr_key, qr_url, qi, qrequests, qhist, qlast, qclean,
                    qkey_raw, qcreate_raw >>
    /\ UNCHANGED << resolveVars, pureVars, concVars >>

\* a plausible slip: the code of the key response is not looked at
QRKeyNoCodeCheck ==
    /\ qpc = "await_key"
    /\ \E raw \in KeyResponses :
       /\ qkey_raw' = raw
       /\
         IF raw.kind # "json"
         THEN qr_key' = qr_key /\ QRReturn(OuterExcept(raw.kind), raw.kind)
         ELSE IF "data" \notin DOMAIN raw.body
         THEN qr_key' = qr_key /\ QRReturn(OuterExcept("KeyError"), "KeyError")
         ELSE qr_key' = raw.body.data.unikey /\ QRGoOn("create")
    /\ UNCHANGED << qvalues, qr_url, qi, qrequests, qhist, qlast, qclean, qcreate_raw >>
    /\ UNCHANGED << resolveVars, pureVars, concVars >>

\* step 1: GET /login/qr/key goes out; the flow is suspended until it is answered
QRKeySend ==
    /\ qpc = "key"
    /\ qrequests' = Append(qrequests, "/login/qr/key")
    /\ QRGoOn("await_key")
    /\ UNCHANGED << qvalues, qr_key, qr_url, qi, qhist, qlast, qclean, qkey_raw, qcreate_raw >>
    /\ UNCHANGED << resolveVars, pureVars, concVars >>

\* step 1, resumed with the answer: key_data = await resp.json(), code check,
\* key_data["data"]["unikey"]
QRKey ==
    /\ qpc = "await_key"
    /\ \E raw \in KeyResponses :
       /\ qkey_raw' = raw
       /\
         IF raw.kind # "json"                          \* session.get / resp.json() raises
         THEN qr_key' = qr_key /\ QRReturn(OuterExcept(raw.kind), raw.kind)
         ELSE IF Get(raw.body, "code", NoCode) # 200
         THEN qr_key' = qr_key /\ QRReturn(QNull, "key_code")
         ELSE IF "data" \notin DOMAIN raw.body         \* key_data["data"] raises KeyError
         THEN qr_key' = qr_key /\ QRReturn(OuterExcept("KeyError"), "KeyError")
         ELSE qr_key' = raw.body.data.unikey /\ QRGoOn("create")
    /\ UNCHANGED << qvalues, qr_url, qi, qrequests, qhist, qlast, qclean, qcreate_raw >>
    /\ UNCHANGED << resolveVars, pureVars, concVars >>

\* step 2: GET /login/qr/create goes out; the flow is suspended until it is answered
QRCreateSend ==
    /\ qpc = "create"
    /\ qrequests' = Append(qrequests, "/login/qr/create")
    /\ QRGoOn("await_create")
    /\ UNCHANGED << qvalues, qr_key, qr_url, qi, qhist, qlast, qclean, qkey_raw, qcreate_raw >>
    /\ UNCHANGED << resolveVars, pureVars, concVars >>

\* step 2, resumed with the answer: code check, then the empty-URL check
QRCreate ==
    /\ qpc = "await_create"
    /\ \E raw \in CreateResponses :
       /\ qcreate_raw' = raw
       /\
         IF raw.kind # "json"
         THEN qr_url' = qr_url /\ QRReturn(OuterExcept(raw.kind), raw.kind)
         ELSE IF Get(raw.body, "code", NoCode) # 200
         THEN qr_url' = qr_url /\ QRReturn(QNull, "create_code")
         ELSE IF "data" \notin DOMAIN raw.body         \* qr_data["data"] raises KeyError
         THEN qr_url' = qr_url /\ QRReturn(OuterExcept("KeyError"), "KeyError")
         ELSE IF Get(raw.body.data, "qrurl", "") = ""
         THEN qr_url' = qr_url /\ QRReturn(QNull, "empty_qr_url")
         ELSE qr_url' = raw.body.data.qrurl /\ QRGoOn("browser")
    /\ UNCHANGED << qvalues, qr_key, qi, qrequests, qhist, qlast, qclean, qkey_raw >>
    /\ UNCHANGED << resolveVars, pureVars, concVars >>

\* step 3: open the browser; a failure of the helper is caught and logged
QRBrowser ==
    /\ qpc = "browser"
    /\ \E opened \in BOOLEAN : qpc' = "poll"
    /\ UNCHANGED << qvalues, qr_key, qr_url, qi, qrequests, qresult, qhist, qlast,
                    qclean, qfail, qkey_raw, qcreate_raw >>
    /\ UNCHANGED << resolveVars, pureVars, concVars, configVars >>

\* why a check poll ended the flow without a cookie
CheckFailure(raw) ==
    IF CheckCode(raw) = 800 THEN "expired" ELSE "empty_cookie"

\* step 4, one iteration of the polling loop: the flow, suspended in
\* asyncio.sleep(2) at the top of the iteration, wakes up and GET
\* /login/qr/check goes out; it is suspended again until the answer
QRCheckSend ==
    /\ qpc = "poll"
    /\ qi < MaxPolls
    /\ qrequests' = Append(qrequests, "/login/qr/check")
    /\ QRGoOn("await_check")
    /\ UNCHANGED << qvalues, qr_key, qr_url, qi, qhist, qlast, qclean, qkey_raw, qcreate_raw >>
    /\ UNCHANGED << resolveVars, pureVars, concVars >>

\* the iteration resumed with the answer (or the exception) of the check
\* request: return the cookie, return None, or go round the loop
QRPoll ==
    /\ qpc = "await_check"
    /\ qi' = qi + 1
    /\ \E raw \in CheckResponses :
         LET d == CheckDecision(raw)
         IN /\ qlast' = raw
            /\ qhist' = IF Len(qhist) < MaxHist
                        THEN Append(qhist, CheckCode(raw)) ELSE qhist
            /\ qclean' = (qclean /\ (qlast = None \/ IsWaitCode(CheckCode(qlast))))
            /\ IF d = QRunning THEN QRGoOn("poll")
               ELSE IF d = QNull THEN QRReturn(d, CheckFailure(raw))
               ELSE QRReturn(d, "")
    /\ UNCHANGED << qvalues, qr_key, qr_url, qrequests, qkey_raw, qcreate_raw >>
    /\ UNCHANGED << resolveVars, pureVars, concVars >>

\* the loop ran out: timeout
QRTimeout ==
    /\ qpc = "poll"
    /\ qi = MaxPolls
    /\ QRReturn(QNull, "timeout")
    /\ UNCHANGED << qvalues, qr_key, qr_url, qi, qrequests, qhist, qlast, qclean,
                    qkey_raw, qcreate_raw >>
    /\ UNCHANGED << resolveVars, pureVars, concVars >>

QRInit ==
    /\ qpc = "start"
    /\ qvalues \in QValues
    /\ qr_key = ""
    /\ qr_url = ""
    /\ qi = 0
    /\ qrequests = << >>
    /\ qresult = QRunning
    /\ qhist = << >>
    /\ qlast = None
    /\ qclean = TRUE
    /\ qfail = ""
    /\ qkey_raw = None
    /\ qcreate_raw = None

QRNext ==
    \/ QRStart
    \/ QRKeySend
    \/ QRKey
    \/ QRCreateSend
    \/ QRCreate
    \/ QRBrowser
    \/ QRCheckSend
    \/ QRPoll
    \/ QRTimeout

\* a login flow that has not been started
QRIdle ==
    /\ qpc = "idle"
    /\ qvalues = EmptyDict
    /\ qr_key = ""
    /\ qr_url = ""
    /\ qi = 0
    /\ qrequests = << >>
    /\ qresult = QRunning
    /\ qhist = << >>
    /\ qlast = None
    /\ qclean = TRUE
    /\ qfail = ""
    /\ qkey_raw = None
    /\ qcreate_raw = None

\* a provider on which no resolve run has been started
ResolveIdle ==
    /\ pc = "idle"
    /\ quality_config = "<none>"
    /\ levels = << >>
    /\ idx = 0
    /\ song_data = None
    /\ url = NoneUrl
    /\ is_free_trial = FALSE
    /\ requests = << >>
    /\ outstanding = 0
    /\ match_data = None
    /\ outcome = "running"
    /\ stream = None
    /\ retained = None
    /\ accepted = FALSE
    /\ seen_url = FALSE
    /\ first_preview = None
    /\ all_preview = TRUE

----------------------------------------------------------------------------
(* Catalog parsers: _parse_track, _parse_album, _parse_artist, _parse_playlist *)

\* placeholder names (the source's literals, transliterated: the unknown
\* song / album / artist / playlist)
UnknownTrack == "weizhi gequ"
UnknownAlbum == "weizhi zhuanji"
UnknownArtist == "weizhi yishujia"
UnknownPlaylist == "weizhi gedan"

CoverSuffix == "?param=300y300"

\* str() of an identifier
Str(n) == ToString(n)

KeyError == [exc |-> "KeyError"]

\* MediaItemImage list for a cover URL ("" when absent)
Images(pic_url) ==
    IF pic_url # "" THEN << [path |-> pic_url, suffix |-> CoverSuffix] >> ELSE << >>

\* the ItemMapping list built from artist references; str(ar["id"]) raises
\* KeyError on a reference without id
ArtistRefsOk(ars) == \A i \in 1..Len(ars) : "id" \in DOMAIN ars[i]

ArtistMappings(ars) ==
    [i \in 1..Len(ars) |->
        [item_id |-> Str(ars[i]["id"]), name |-> Get(ars[i], "name", UnknownArtist)]]

ParseTrack(data) ==
    IF "id" \notin DOMAIN data THEN KeyError
    ELSE IF ~ArtistRefsOk(Get(data, "ar", << >>)) THEN KeyError
    ELSE LET al == Get(data, "al", EmptyDict)
         IN [ kind |-> "track",
              item_id |-> Str(data["id"]),
              name |-> Get(data, "name", UnknownTrack),
              duration |-> Get(data, "dt", 0) \div 1000,
              artists |-> ArtistMappings(Get(data, "ar", << >>)),
              album |-> IF DOMAIN al # {}
                        THEN [item_id |-> Str(Get(al, "id", 0)),
                              name |-> Get(al, "name", UnknownAlbum)]
                        ELSE None,
              images |-> IF DOMAIN al # {} THEN Images(Get(al, "picUrl", "")) ELSE << >> ]

ParseAlbum(data) ==
    IF "id" \notin DOMAIN data THEN KeyError
    ELSE IF ~ArtistRefsOk(Get(data, "artists", << >>)) THEN KeyError
    ELSE [ kind |-> "album",
           item_id |-> Str(data["id"]),
           name |-> Get(data, "name", UnknownAlbum),
           artists |-> ArtistMappings(Get(data, "artists", << >>)),
           images |-> Images(Get(data, "picUrl", "")) ]

ParseArtist(data) ==
    IF "id" \notin DOMAIN data THEN KeyError
    ELSE LET pic == Get(data, "picUrl", "")
         IN [ kind |-> "artist",
              item_id |-> Str(data["id"]),
              name |-> Get(data, "name", UnknownArtist),
              images |-> Images(IF pic # "" THEN pic ELSE Get(data, "img1v1Url", "")) ]

\* a plausible slip: no placeholder for an unnamed playlist
ParsePlaylistNoPlaceholder(data) ==
    IF "id" \notin DOMAIN data THEN KeyError
    ELSE LET creator == Get(data, "creator", EmptyDict)
         IN [ kind |-> "playlist",
              item_id |-> Str(data["id"]),
              name |-> Get(data, "name", ""),
              owner |-> IF DOMAIN creator # {} THEN Get(creator, "nickname", "") ELSE "",
              images |-> Images(Get(data, "coverImgUrl", "")) ]

ParsePlaylist(data) ==
    IF "id" \notin DOMAIN data THEN KeyError
    ELSE LET creator == Get(data, "creator", EmptyDict)
         IN [ kind |-> "playlist",
              item_id |-> Str(data["id"]),
              name |-> Get(data, "name", UnknownPlaylist),
              owner |-> IF DOMAIN creator # {} THEN Get(creator, "nickname", "") ELSE "",
              images |-> Images(Get(data, "coverImgUrl", "")) ]

Parse(kind, data) ==
    CASE kind = "track" -> ParseTrack(data)
      [] kind = "album" -> ParseAlbum(data)
      [] kind = "artist" -> ParseArtist(data)
      [] kind = "playlist" -> ParsePlaylist(data)

\* upstream payloads
Ids == Opt("id", {1, 2})
Names == Opt("name", {"n"})
ArtistRefLists ==
    { << >>, << [id |-> 7, name |-> "a"] >>, << [id |-> 7] >>, << [name |-> "a"] >>,
      << [id |-> 7, name |-> "a"], [name |-> "b"] >> }
AlbumRefs == { EmptyDict, [id |-> 3, name |-> "al", picUrl |-> "p"], [name |-> "al"], [id |-> 3] }

TrackPayloads ==
    { i @@ n @@ d @@ a @@ l :
        i \in Ids, n \in Names, d \in Opt("dt", {5000}),
        a \in Opt("ar", ArtistRefLists), l \in Opt("al", AlbumRefs) }
AlbumPayloads ==
    { i @@ n @@ a @@ c :
        i \in Ids, n \in Names, a \in Opt("artists", ArtistRefLists), c \in Opt("picUrl", {"p"}) }
ArtistPayloads ==
    { i @@ n @@ c @@ m :
        i \in Ids, n \in Names, c \in Opt("picUrl", {"p"}), m \in Opt("img1v1Url", {"q"}) }
PlaylistPayloads ==
    { i @@ n @@ c @@ o :
        i \in Ids, n \in Names, c \in Opt("coverImgUrl", {"p"}),
        o \in Opt("creator", {EmptyDict, [nickname |-> "nick"]}) }

ParseInputs ==
    { [op |-> "parse", kind |-> "track", data |-> d] : d \in TrackPayloads }
    \cup { [op |-> "parse", kind |-> "album", data |-> d] : d \in AlbumPayloads }
    \cup { [op |-> "parse", kind |-> "artist", data |-> d] : d \in ArtistPayloads }
    \cup { [op |-> "parse", kind |-> "playlist", data |-> d] : d \in PlaylistPayloads }

ApplyParse ==
    /\ arg # None
    /\ arg.op = "parse"
    /\ ret = None
    /\ ret' = Parse(arg.kind, arg.data)
    /\ UNCHANGED << arg, conc >>
    /\ UNCHANGED << resolveVars, qrVars, configVars >>

----------------------------------------------------------------------------
(* Functions of the provider applied to one input *)

\* song_data dicts handed to the format classification
ClassifyTags == {"flac", "FLAC", "Flac", "mp3", "MP3", "m4a", "M4A", "aac", "ogg", ""}
ClassifyRates == {0, 128000, 600000, 999999, 1000000, 1000001, 1200000}

ClassifyInputs ==
    { [op |-> "classify", sd |-> t @@ b @@ r] :
        t \in Opt("type", ClassifyTags), b \in Opt("br", ClassifyRates),
        r \in Opt("sr", {48000}) }

\* the audio format get_stream_details derives from song_data
ApplyClassify ==
    /\ arg # None
    /\ arg.op = "classify"
    /\ ret = None
    /\ ret' = StreamDetailsOf(arg.sd, 1)
    /\ UNCHANGED << arg, conc >>
    /\ UNCHANGED << resolveVars, qrVars, configVars >>

ApiInputs == { [op |-> "api", raw |-> r] : r \in ProbeResponses \cup MatchResponses }

\* one call of _api_request
ApplyApi ==
    /\ arg # None
    /\ arg.op = "api"
    /\ ret = None
    /\ ret' = ApiRequest(arg.raw)
    /\ UNCHANGED << arg, conc >>
    /\ UNCHANGED << resolveVars, qrVars, configVars >>

----------------------------------------------------------------------------
(* _get_real_audio_quality: the audio format shown with a track *)

\* if file_type == "mp3": ... elif "flac": ... elif "m4a": ... (lines 675-683)
RealContentTypeOf(file_type) ==
    CASE file_type = "mp3" -> "MP3"
      [] file_type = "flac" -> "FLAC"
      [] file_type = "m4a" -> "AAC"
      [] OTHER -> "UNKNOWN"

\* a plausible slip: the metadata path takes the threshold itself as 24 bit
RealBitDepthOfInclusive(file_type, br) ==
    IF file_type = "flac" /\ br >= 1000000 THEN 24 ELSE 16

\* bit_depth = 16; under flac: if br > 1000000: bit_depth = 24
RealBitDepthOf(file_type, br) ==
    IF file_type = "flac" /\ br > 1000000 THEN 24 ELSE 16

\* the AudioFormat _get_real_audio_quality returns for the dict _api_request
\* gave; whatever raises inside the try block leaves the defaults in place
RealAudioQuality(data) ==
    LET defaults == [ content_type |-> "UNKNOWN", sample_rate |-> 44100,
                      bit_depth |-> 16, bit_rate |-> 128000 \div 1000 ]
    IN IF ~IsOk(data) THEN defaults
       ELSE IF data["data"].t # "list" THEN defaults          \* KeyError, caught
       ELSE IF data["data"].v[1].t # "dict" THEN defaults     \* AttributeError, caught
       ELSE LET sd == data["data"].v[1].v
                file_type == Lower(Get(sd, "type", ""))
                br == Get(sd, "br", 0)
                sr == Get(sd, "sr", 0)
            IN [ content_type |-> RealContentTypeOf(file_type),
                 sample_rate |-> IF sr # 0 THEN sr ELSE 44100,
                 bit_depth |-> RealBitDepthOf(file_type, br),
                 bit_rate |-> (IF br # 0 THEN br ELSE 128000) \div 1000 ]

\* one upstream candidate handed to both classifications
QualityInputs ==
    { [op |-> "quality", sd |-> t @@ b @@ r] :
        t \in Opt("type", ClassifyTags), b \in Opt("br", ClassifyRates),
        r \in Opt("sr", {48000}) }

\* get_track: _get_real_audio_quality on a /song/url/v1 answer carrying the candidate
ApplyRealAudioQuality ==
    /\ arg # None
    /\ arg.op = "quality"
    /\ "meta" \notin DOMAIN ret
    /\ ret' = ("meta" :> RealAudioQuality([code |-> 200, data |-> JList(<< JDict(arg.sd) >>)]))
              @@ ret
    /\ UNCHANGED << arg, conc >>
    /\ UNCHANGED << resolveVars, qrVars, configVars >>

\* get_stream_details: the audio format of the stream built from the candidate
ApplyStreamQuality ==
    /\ arg # None
    /\ arg.op = "quality"
    /\ "stream" \notin DOMAIN ret
    /\ ret' = ("stream" :> StreamDetailsOf(arg.sd, 1)) @@ ret
    /\ UNCHANGED << arg, conc >>
    /\ UNCHANGED << resolveVars, qrVars, configVars >>

QualityNext ==
    \/ ApplyRealAudioQuality
    \/ ApplyStreamQuality

----------------------------------------------------------------------------
(* get_playlist_tracks: one page of a playlist *)

\* limit = 50
Limit == 50

\* pages asked for: 0..MaxPage
MaxPage == 3

\* lengths of the playlists the upstream holds
PlaylistSizes == {0, 1, 30, 50, 51, 100, 120}

\* the playlist of n songs as the upstream holds it
PlaylistOf(n) == [i \in 1..n |-> [id |-> i, name |-> "n"]]

\* Python s[start:end] for 0 <= start <= end
Slice(s, start, end) ==
    SubSeq(s, start + 1, IF end < Len(s) THEN end ELSE Len(s))

\* how the upstream treats a /playlist/track/all request: it returns the
\* whole playlist whatever limit and offset say, it honours them, it answers
\* 200 without a songs field, or the request fails (_api_request gives code -1)
UpstreamModes == {"all", "paged", "nosongs", "error"}

\* the dict _api_request returns for a request with the given limit and
\* offset (limit 0: the request carries no paging parameters)
UpstreamAnswer(mode, songs, limit, offset) ==
    CASE mode = "all" -> [code |-> 200, songs |-> songs]
      [] mode = "paged" ->
           [code |-> 200,
            songs |-> IF limit = 0 THEN songs ELSE Slice(songs, offset, offset + limit)]
      [] mode = "nosongs" -> [code |-> 200]
      [] OTHER -> [code |-> -1, error |-> "transport_error"]

\* [self._parse_track(song) for song in songs]: a KeyError of one song leaves
\* the call
ParseTracks(songs) ==
    IF \E i \in 1..Len(songs) : ParseTrack(songs[i]) = KeyError
    THEN KeyError
    ELSE [i \in 1..Len(songs) |-> ParseTrack(songs[i])]

\* if len(songs) > limit: songs = songs[page * limit : page * limit + limit]
PageOf(songs, page) ==
    IF Len(songs) > Limit
    THEN Slice(songs, page * Limit, page * Limit + Limit)
    ELSE songs

\* get_playlist_tracks(page) when the upstream holds the given songs and
\* treats the paged request as mode first and the unpaged retry as mode second:
\* the requests made and the list returned
GetPlaylistTracks(page, songs, first, second) ==
    LET limit == Limit
        offset == page * limit
        req1 == [endpoint |-> "/playlist/track/all", limit |-> limit, offset |-> offset]
        req2 == [endpoint |-> "/playlist/track/all", limit |-> 0, offset |-> 0]
        data1 == UpstreamAnswer(first, songs, limit, offset)
        bad1 == Get(data1, "code", NoCode) # 200 \/ Get(data1, "songs", << >>) = << >>
    IN IF bad1 /\ page # 0
       THEN [requests |-> << req1 >>, tracks |-> << >>]
       ELSE LET data == IF bad1 THEN UpstreamAnswer(second, songs, 0, 0) ELSE data1
                got == Get(data, "songs", << >>)
            IN [ requests |-> IF bad1 THEN << req1, req2 >> ELSE << req1 >>,
                 tracks |-> IF got = << >> THEN << >>
                            ELSE ParseTracks(PageOf(got, page)) ]

PlaylistInputs ==
    { [op |-> "playlist", page |-> p, n |-> n, first |-> f, second |-> g] :
        p \in 0..MaxPage, n \in PlaylistSizes,
        f \in UpstreamModes, g \in UpstreamModes \ {"paged"} }

\* one call of get_playlist_tracks
ApplyPlaylistTracks ==
    /\ arg # None
    /\ arg.op = "playlist"
    /\ ret = None
    /\ ret' = GetPlaylistTracks(arg.page, PlaylistOf(arg.n), arg.first, arg.second)
    /\ UNCHANGED << arg, conc >>
    /\ UNCHANGED << resolveVars, qrVars, configVars >>

----------------------------------------------------------------------------
(* concurrent get_stream_details calls on one provider instance *)

\* two coroutines of get_stream_details, scheduled by one event loop: a
\* coroutine runs without interruption from one await to the next
Runs == {1, 2}

\* the track ids of the two calls: the same id twice, or two ids
TrackIdPairs == { << 1, 1 >>, << 1, 2 >> }

ConcConfigs == {"standard", "higher", "bogus"}

ConcProbeResponses ==
    { [kind |-> "transport_error"],
      [kind |-> "json", body |-> JDict([code |-> 200,
          data |-> JList(<< JDict([url |-> 1, type |-> "flac"]) >>)])],
      [kind |-> "json", body |-> JDict([code |-> 200,
          data |-> JList(<< JDict([url |-> 2, freeTrialInfo |-> TRUE]) >>)])],
      [kind |-> "json", body |-> JDict([code |-> 200,
          data |-> JDict([url |-> 1])])] }

ConcMatchResponses ==
    { [kind |-> "parse_error"],
      [kind |-> "json", body |-> JDict([code |-> 200,
          data |-> JDict([url |-> 1, type |-> "m4a"])])] }

\* the locals of one call when it is entered
NewFrame ==
    [ pc |-> "start", levels |-> << >>, idx |-> 0, song_data |-> None,
      url |-> NoneUrl, is_free_trial |-> FALSE, outcome |-> "running",
      stream |-> None ]

\* a plausible slip: the working state is kept on the provider instance
FrameShared(r) == 1

\* the frame that holds the locals of call r: each call has its own
Frame(r) == r

\* the rescue branch on a frame: merge inside try / except, final check, return
RescueBody(fr, raw) ==
    LET unblock_data == ApiRequest(raw)
        ok == IsOk(unblock_data) /\ unblock_data["data"].t = "dict"
        md == IF ok THEN unblock_data["data"].v ELSE None
        match_url == IF ok THEN Get(md, "url", NoneUrl) ELSE NoneUrl
        hit == ok /\ UrlTruthy(match_url)
        sd == IF hit THEN MergeRescue(fr.song_data, md) ELSE fr.song_data
        u == IF hit THEN match_url ELSE fr.url
    IN [fr EXCEPT !.song_data = sd, !.url = u,
                  !.is_free_trial = IF hit THEN FALSE ELSE @,
                  !.outcome = FinalOutcome(u), !.stream = FinalStream(sd, u),
                  !.pc = "done"]

\* a frame run on from the top of the loop, or from behind it, to its next
\* await or to its return, with the request it issues on the way
Advance(fr) ==
    IF fr.pc = "loop"
    THEN [ fr |-> [fr EXCEPT !.idx = @ + 1, !.pc = "await_probe"],
           req |-> << ProbeRequest(fr.levels[fr.idx + 1]) >> ]
    ELSE IF fr.pc = "after_loop"
    THEN IF NeedsRescue(fr.url, fr.is_free_trial)
         THEN [ fr |-> [fr EXCEPT !.pc = "await_rescue"], req |-> << MatchRequest >> ]
         ELSE [ fr |-> [fr EXCEPT !.outcome = FinalOutcome(fr.url),
                                  !.stream = FinalStream(fr.song_data, fr.url),
                                  !.pc = "done"],
                req |-> << >> ]
    ELSE [ fr |-> fr, req |-> << >> ]

\* a call from its entry to its first await
Begin(q) == Advance([NewFrame EXCEPT !.levels = LevelsFor(q), !.pc = "loop"])

\* a call resumed with the response it awaited, up to its next await or return
Resume(fr, raw) ==
    IF fr.pc = "await_probe"
    THEN LET r == ProbeBody(ApiRequest(raw), fr.song_data, fr.url, fr.is_free_trial)
         IN Advance([fr EXCEPT !.song_data = r.sd, !.url = r.u,
                               !.is_free_trial = r.trial,
                               !.outcome = IF r.exc # "" THEN r.exc ELSE @,
                               !.pc = AfterProbe(r.exc, r.brk, fr.idx, Len(fr.levels))])
    ELSE [ fr |-> RescueBody(fr, raw), req |-> << >> ]

\* the requests of call r as they go on the wire
Sent(r, reqs) ==
    [ i \in 1..Len(reqs) |-> [run |-> r, id |-> conc.ids[r], req |-> reqs[i]] ]

\* what a call that has ended gives its caller
ResultOf(fr) ==
    IF fr.pc = "done" THEN [outcome |-> fr.outcome, stream |-> fr.stream] ELSE None

ConcBegin(r) ==
    /\ ~conc.started[r]
    /\ LET s == Begin(conc.quality)
       IN conc' = [conc EXCEPT !.started[r] = TRUE,
                               !.frames[Frame(r)] = s.fr,
                               !.log = @ \o Sent(r, s.req)]
    /\ UNCHANGED << resolveVars, qrVars, pureVars, configVars >>

ConcResume(r) ==
    /\ conc.started[r]
    /\ conc.result[r] = None
    /\ conc.frames[Frame(r)].pc \in {"await_probe", "await_rescue"}
    /\ \E raw \in (IF conc.frames[Frame(r)].pc = "await_probe"
                   THEN ConcProbeResponses ELSE ConcMatchResponses) :
         LET s == Resume(conc.frames[Frame(r)], raw)
         IN conc' = [conc EXCEPT !.frames[Frame(r)] = s.fr,
                                 !.log = @ \o Sent(r, s.req),
                                 !.answers[r] = Append(@, raw),
                                 !.result[r] = ResultOf(s.fr)]
    /\ UNCHANGED << resolveVars, qrVars, pureVars, configVars >>

ConcInit ==
    \E q \in ConcConfigs, ids \in TrackIdPairs :
        conc = [ quality |-> q, ids |-> ids,
                 started |-> [r \in Runs |-> FALSE],
                 frames |-> [r \in Runs |-> NewFrame],
                 log |-> << >>,
                 answers |-> [r \in Runs |-> << >>],
                 result |-> [r \in Runs |-> None] ]

ConcNext ==
    \/ \E r \in Runs : ConcBegin(r)
    \/ \E r \in Runs : ConcResume(r)

\* no function under study, no concurrent runs
PureIdle == arg = None /\ ret = None

ConcIdle == conc = None

ConfigIdle == config_values = {}

----------------------------------------------------------------------------
(* Specifications *)

\* one resolve run
Init == ResolveInit /\ QRIdle /\ PureIdle /\ ConcIdle /\ ConfigIdle
Next == ResolveNext
Spec == Init /\ [][Next]_vars

\* one QR login flow
InitQR == QRInit /\ ResolveIdle /\ PureIdle /\ ConcIdle /\ ConfigIdle
NextQR == QRNext
SpecQR == InitQR /\ [][NextQR]_vars

\* the format classification on one song_data
InitClassify == arg \in ClassifyInputs /\ ret = None /\ ResolveIdle /\ QRIdle /\ ConcIdle /\ ConfigIdle
SpecClassify == InitClassify /\ [][ApplyClassify]_vars

\* _api_request on one raw response
InitApi == arg \in ApiInputs /\ ret = None /\ ResolveIdle /\ QRIdle /\ ConcIdle /\ ConfigIdle
SpecApi == InitApi /\ [][ApplyApi]_vars

\* a catalog parser on one payload
InitParse == arg \in ParseInputs /\ ret = None /\ ResolveIdle /\ QRIdle /\ ConcIdle /\ ConfigIdle
SpecParse == InitParse /\ [][ApplyParse]_vars

\* both classifications on one candidate
InitQuality == arg \in QualityInputs /\ ret = EmptyDict /\ ResolveIdle /\ QRIdle /\ ConcIdle /\ ConfigIdle
SpecQuality == InitQuality /\ [][QualityNext]_vars

\* get_playlist_tracks on one page of one playlist
InitPlaylist == arg \in PlaylistInputs /\ ret = None /\ ResolveIdle /\ QRIdle /\ ConcIdle /\ ConfigIdle
SpecPlaylist == InitPlaylist /\ [][ApplyPlaylistTracks]_vars

\* two concurrent resolve calls
InitConc == ConcInit /\ ResolveIdle /\ QRIdle /\ PureIdle /\ ConfigIdle
SpecConc == InitConc /\ [][ConcNext]_vars

\* the login coroutine is always resumed: every sleep ends and every request
\* is answered or raises
SpecQRFair == SpecQR /\ WF_vars(NextQR)

----------------------------------------------------------------------------
(* Properties of the resolve run *)

IsProbe(r) == r.endpoint = "/song/url/v1"
IsRescue(r) == r.endpoint = "/song/url/match"
ProbeReqs == SelectSeq(requests, IsProbe)
RescueReqs == SelectSeq(requests, IsRescue)
ProbedLevels == [i \in 1..Len(ProbeReqs) |-> ProbeReqs[i].level]

Ladder == { all_levels[i] : i \in 1..Len(all_levels) }
Faulted == outcome \in {"KeyError", "AttributeError"}
\* the rescue response carried code 200 and a non-empty URL
RescueHit == match_data # None /\ HasUrl(match_data)

\* C1: once a probe has returned a full candidate (code 200, non-empty URL,
\* no preview flag) the run is out of the probe loop and the probes made are
\* exactly those up to that level: no further /song/url/v1 request exists.
C1_StopAtFull ==
    accepted =>
        /\ pc \in {"after_loop", "done"}
        /\ Len(requests) = idx
        /\ \A i \in 1..idx : requests[i] = ProbeRequest(levels[i])

\* sequence [higher, standard], full URL at 'higher': one probe, no 'standard'
C1_Witness ==
    /\ pc = "done"
    /\ accepted
    /\ quality_config = "higher"
    /\ requests = << ProbeRequest("higher") >>
    /\ outcome = "stream"

\* C2: for a configured quality on the ladder, the i-th probe is at the
\* ladder level i-1 places below the configured one: first probe at q, then
\* consecutive lower levels, none skipped, repeated, or above q.
C2_LadderOrder ==
    quality_config \in Ladder =>
        \E k \in 1..Len(all_levels) :
            /\ all_levels[k] = quality_config
            /\ Len(ProbedLevels) <= Len(all_levels) - k + 1
            /\ \A i \in 1..Len(ProbedLevels) : ProbedLevels[i] = all_levels[k + i - 1]

\* all nine levels probed from the top, and a run started in mid-ladder
C2_Witness ==
    /\ quality_config = "jymaster"
    /\ Len(ProbedLevels) = 9
    /\ ProbedLevels[9] = "standard"

\* C3: with a configured quality that is not on the ladder the run does not
\* fault: it probes exhigh, higher, standard in that order and ends with a
\* stream or with the NoPlayableSource failure (ValueError).
C3_UnrecognizedNoFault ==
    quality_config \notin Ladder =>
        /\ \A i \in 1..Len(ProbedLevels) : i <= 3 /\ ProbedLevels[i] = default_levels[i]
        /\ outcome \in {"running", "stream", "ValueError"}
        /\ (pc = "done" => outcome \in {"stream", "ValueError"})

\* the probe order part of C3 alone
C3_DefaultOrder ==
    quality_config \notin Ladder =>
        \A i \in 1..Len(ProbedLevels) : i <= 3 /\ ProbedLevels[i] = default_levels[i]

\* probing has ended (the loop was left by break or by exhausting levels) and
\* the run has gone past the rescue decision
PastRescueDecision == pc = "await_rescue" \/ (pc = "done" /\ ~Faulted)

\* C4: the rescue endpoint is requested at most once, always with the fixed
\* source list; a run whose probing ended without a full candidate requests
\* it exactly once, a run that accepted a full candidate never does.
C4_RescueOnce ==
    /\ Len(RescueReqs) <= 1
    /\ \A i \in 1..Len(RescueReqs) : RescueReqs[i].source = "pyncmd,bodian,kuwo"
    /\ (accepted => Len(RescueReqs) = 0)
    /\ (PastRescueDecision /\ ~accepted => Len(RescueReqs) = 1)

\* every probe gave a preview with a URL, and the rescue was asked once
C4_Witness ==
    /\ pc = "done"
    /\ ~accepted
    /\ seen_url
    /\ is_free_trial
    /\ idx = Len(levels)
    /\ Len(RescueReqs) = 1
    /\ outcome = "stream"

\* the value the merged result uses for a field: the rescue's when supplied,
\* else the retained preview candidate's, else the default
C5_Expected(k, default) ==
    IF k \in DOMAIN match_data THEN match_data[k]
    ELSE IF retained # None /\ k \in DOMAIN retained THEN retained[k]
    ELSE default

\* C5: after a rescue response with code 200 and a non-empty URL the stream's
\* URL is the rescue URL, the preview flag is cleared, and bit rate and codec
\* tag are the rescue's value, else the retained preview's, else 128000 / mp3.
C5_RescueMerge ==
    (pc = "done" /\ RescueHit) =>
        /\ outcome = "stream"
        /\ stream.path = match_data["url"]
        /\ ~is_free_trial
        /\ song_data["br"] = C5_Expected("br", 128000)
        /\ song_data["type"] = C5_Expected("type", "mp3")
        /\ stream.bit_rate = C5_Expected("br", 128000) \div 1000
        /\ stream.content_type = ContentTypeOf(Lower(C5_Expected("type", "mp3")))

\* rescue URL differs from the retained preview's URL; the rescue supplies no
\* bit rate, so the preview's is used
C5_Witness ==
    /\ pc = "done"
    /\ RescueHit
    /\ HasUrl(retained)
    /\ retained["url"] # match_data["url"]
    /\ "br" \notin DOMAIN match_data
    /\ "br" \in DOMAIN retained
    /\ "type" \in DOMAIN match_data
    /\ "type" \in DOMAIN retained

\* C6: a returned stream has a non-empty URL, and a run in which no probe
\* and no rescue response yielded a non-empty URL ends with ValueError and
\* no stream.
C6_UrlOrFailure ==
    pc = "done" =>
        /\ (outcome = "stream" => stream # None /\ stream.path > 0)
        /\ (outcome # "stream" => stream = None)
        /\ (~seen_url /\ ~RescueHit => outcome = "ValueError")

\* the part of C6 about returned streams alone
C6_StreamHasUrl ==
    /\ (outcome = "stream" <=> stream # None)
    /\ (stream # None => stream.path > 0)

\* C7: the run fails with ValueError only on total exhaustion: no probed
\* candidate carried a non-empty URL and the rescue yielded none.
C7_FailOnlyOnExhaustion ==
    (pc = "done" /\ outcome = "ValueError") => (~seen_url /\ ~RescueHit)

\* C8: a failed probe never aborts the run: every finished run ends in the
\* final check, with a stream or with ValueError.
C8_ProbeFailureAbsorbed ==
    pc = "done" => outcome \in {"stream", "ValueError"}

----------------------------------------------------------------------------
(* Properties of the QR login flow *)

IsCheck(r) == r = "/login/qr/check"
CheckReqs == SelectSeq(qrequests, IsCheck)
LastCode == IF qlast = None THEN NoCode ELSE CheckCode(qlast)
LastCookie == IF qlast # None /\ qlast.kind = "json" THEN Get(qlast.body, "cookie", "") ELSE ""

\* C9: when the first terminal code is 803 with a non-empty cookie, reached
\* within the 60 polls after only 801 / 802 codes, the flow has returned that
\* cookie and no check request follows the one that was answered 803.
C9_LoginSuccess ==
    (LastCode = 803 /\ LastCookie # "" /\ qclean) =>
        /\ qpc = "done"
        /\ qresult = LastCookie
        /\ Len(CheckReqs) = qi
        /\ qi <= 60

\* [801, 801, 802, 803 with cookie X] returns X after four polls
C9_Witness ==
    /\ qhist = << 801, 801, 802, 803 >>
    /\ qclean
    /\ qresult = "X"
    /\ qi = 4
    /\ Len(CheckReqs) = 4

\* C10: a check poll answered 800 ends the flow at that poll with a null
\* result, and no later check request is issued.
C10_Expired ==
    LastCode = 800 =>
        /\ qpc = "done"
        /\ qresult = QNull
        /\ Len(CheckReqs) = qi

\* 800 after a scan awaiting confirmation, at the third poll
C10_Witness ==
    /\ qhist = << 801, 802, 800 >>
    /\ qpc = "done"
    /\ qresult = QNull
    /\ qi = 3
    /\ Len(CheckReqs) = 3

\* C11: the flow issues at most 60 check requests and always terminates; a
\* flow that ends after polls none of which gave a terminal code (803 or 800)
\* has made exactly 60 polls and returns null.
C11_BoundedPolling ==
    /\ [](/\ Len(CheckReqs) <= 60
          /\ (qpc = "done" /\ qi > 0 /\ LastCode \notin {800, 803}
                => qi = 60 /\ Len(CheckReqs) = 60 /\ qresult = QNull))
    /\ <>(qpc = "done")

\* sixty polls without a terminal code, then null
C11_Witness ==
    /\ qpc = "done"
    /\ qi = 60
    /\ Len(CheckReqs) = 60
    /\ qhist = << 801, 801, 801, 801 >>
    /\ LastCode = 801
    /\ qclean
    /\ qresult = QNull

\* C12: the flow never raises to its caller: whatever failed (missing API
\* URL or session id, non-200 key or create code, empty QR URL, transport or
\* parse error, expiry, timeout), the flow returns null.
C12_NeverRaises ==
    /\ qresult # QRaised
    /\ (qpc = "done" /\ qfail # "" => qresult = QNull)
    /\ (qpc = "done" /\ qfail = "" => qresult \notin {QNull, QRunning, ""})
    /\ (qpc # "done" => qresult = QRunning /\ qfail = "")

\* the create request fails to parse after a good key request
C12_Witness ==
    /\ qpc = "done"
    /\ qrequests = << "/login/qr/key", "/login/qr/create" >>
    /\ qfail = "parse_error"
    /\ qresult = QNull

----------------------------------------------------------------------------
(* Properties of the functions *)

C14_Tag == Get(arg.sd, "type", "")
C14_Rate == Get(arg.sd, "br", 0)

\* C14: the classification depends on (container tag, bit rate) only: flac
\* in any letter case gives FLAC, with bit depth 24 when the bit rate is
\* strictly above 1,000,000 and 16 otherwise; mp3 gives MP3, m4a gives AAC,
\* any other tag UNKNOWN, all with bit depth 16.
\* (The tag is lower-cased before every comparison, so mp3 and m4a match in
\* any letter case too.)
C14_Classification ==
    (arg # None /\ arg.op = "classify" /\ ret # None) =>
        /\ ret.content_type =
             ( CASE C14_Tag \in {"flac", "FLAC", "Flac"} -> "FLAC"
                 [] C14_Tag \in {"mp3", "MP3"} -> "MP3"
                 [] C14_Tag \in {"m4a", "M4A"} -> "AAC"
                 [] OTHER -> "UNKNOWN" )
        /\ ret.bit_depth =
             ( IF C14_Tag \in {"flac", "FLAC", "Flac"} /\ C14_Rate > 1000000 THEN 24 ELSE 16 )

\* flac at 1,200,000 bps is FLAC / 24 bit
C14_Witness ==
    /\ arg # None /\ arg.op = "classify" /\ ret # None
    /\ C14_Tag = "flac"
    /\ C14_Rate = 1200000
    /\ ret.content_type = "FLAC"
    /\ ret.bit_depth = 24

C16_Placeholder(kind) ==
    CASE kind = "track" -> "weizhi gequ"
      [] kind = "album" -> "weizhi zhuanji"
      [] kind = "artist" -> "weizhi yishujia"
      [] kind = "playlist" -> "weizhi gedan"

\* every artist reference embedded in the payload carries its own id
C16_RefsHaveIds ==
    LET ars == IF arg.kind = "track" THEN Get(arg.data, "ar", << >>)
               ELSE IF arg.kind = "album" THEN Get(arg.data, "artists", << >>)
               ELSE << >>
    IN \A i \in 1..Len(ars) : "id" \in DOMAIN ars[i]

\* C16: for each parser, a payload without id yields no entity (KeyError),
\* and a payload with id but without name yields an entity of that type
\* carrying the type's placeholder name.
C16_ParserDefaults ==
    (arg # None /\ arg.op = "parse" /\ ret # None) =>
        /\ ("id" \notin DOMAIN arg.data => ret = [exc |-> "KeyError"])
        /\ ("id" \in DOMAIN arg.data /\ "name" \notin DOMAIN arg.data /\ C16_RefsHaveIds
              => /\ "exc" \notin DOMAIN ret
                 /\ ret.kind = arg.kind
                 /\ ret.name = C16_Placeholder(arg.kind)
                 /\ ret.item_id = Str(arg.data["id"]))

\* an unnamed playlist with an id
C16_Witness ==
    /\ arg # None /\ arg.op = "parse" /\ ret # None
    /\ arg.kind = "playlist"
    /\ "id" \in DOMAIN arg.data
    /\ "name" \notin DOMAIN arg.data
    /\ ret.name = "weizhi gedan"

\* C17: _api_request never raises: an object body is returned unchanged
\* whatever its code, and a transport failure, an unparsable body or a body
\* that is not an object is returned as a record with code -1.
C17_ApiNeverRaises ==
    (arg # None /\ arg.op = "api" /\ ret # None) =>
        /\ "raised" \notin DOMAIN ret
        /\ (arg.raw.kind = "json" /\ arg.raw.body.t = "dict" => ret = arg.raw.body.v)
        /\ (arg.raw.kind # "json" \/ arg.raw.body.t # "dict"
              => "code" \in DOMAIN ret /\ ret["code"] = -1)

\* a transport error comes back as code -1
C17_Witness ==
    /\ arg # None /\ arg.op = "api" /\ ret # None
    /\ arg.raw.kind = "transport_error"
    /\ ret["code"] = -1

\* the candidate object a probe returned, as it is now: song_data = temp_data
\* binds song_data to that very dict, so what is stored through song_data is
\* stored in the candidate
CandidateObject == IF retained # None THEN song_data ELSE None

\* C15: a candidate returned by a probe is never modified afterwards: the
\* retained candidate keeps, field by field, the value the probe returned.
C15_CandidateImmutable ==
    retained # None => CandidateObject = retained

\* the probe loop has been left other than by an exception
LoopLeft == pc \in {"after_loop", "await_rescue"} \/ (pc = "done" /\ ~Faulted)

\* C18: only the first preview candidate is retained, a later one never
\* replaces it; when every probe returned a preview and the rescue yields no
\* URL, the result is built from the first preview candidate.
C18_FirstPreviewKept ==
    /\ (first_preview # None /\ ~accepted /\ ~RescueHit
          => song_data = first_preview /\ url = Get(first_preview, "url", NoneUrl))
    /\ (pc = "done" /\ all_preview /\ ~RescueHit /\ HasUrl(first_preview)
          => /\ outcome = "stream"
             /\ stream.path = first_preview["url"]
             /\ stream = StreamDetailsOf(first_preview, first_preview["url"]))

\* two previews with URLs, no rescue URL: the first one is played
C18_Witness ==
    /\ pc = "done"
    /\ quality_config = "higher"
    /\ idx = 2
    /\ all_preview
    /\ ~RescueHit
    /\ HasUrl(first_preview)
    /\ "type" \in DOMAIN first_preview
    /\ outcome = "stream"
    /\ stream.path = first_preview["url"]

\* C19: a preview never ends probing (the loop is left early only by a full
\* candidate), and a full candidate found after a preview gives a stream
\* built from the full candidate, preview flag cleared, without any rescue.
C19_PreviewContinues ==
    /\ (LoopLeft /\ ~accepted => idx = Len(levels))
    /\ (pc \in {"after_loop", "done"} /\ accepted
          => /\ HasUrl(retained) /\ ~IsPreview(retained)
             /\ song_data = retained
             /\ ~is_free_trial
             /\ Len(RescueReqs) = 0)
    /\ (pc = "done" /\ accepted
          => /\ outcome = "stream"
             /\ stream = StreamDetailsOf(retained, retained["url"]))

\* a preview with a URL, then a full candidate with another URL
C19_Witness ==
    /\ pc = "done"
    /\ accepted
    /\ HasUrl(first_preview)
    /\ idx = 2
    /\ outcome = "stream"
    /\ stream.path # first_preview["url"]
    /\ Len(RescueReqs) = 0

\* C20: requests of one run are strictly sequential: at most one is
\* outstanding, it is outstanding exactly while the run awaits it, the probes
\* issued are those of the levels the loop has taken, and a rescue request
\* comes last, after every probe made has been answered.
C20_Sequential ==
    /\ outstanding \in {0, 1}
    /\ (outstanding = 1 <=> pc \in {"await_probe", "await_rescue"})
    /\ Len(ProbeReqs) = idx
    /\ \A i \in 1..Len(requests) :
         IsRescue(requests[i]) => i = Len(requests) /\ i = idx + 1

\* the rescue request outstanding after three answered probes
C20_Witness ==
    /\ pc = "await_rescue"
    /\ outstanding = 1
    /\ idx = 3
    /\ Len(requests) = 4
    /\ IsRescue(requests[4])

\* a call alone: the frame and the requests of a call that ran by itself
\* and was given these answers in turn
RECURSIVE Alone(_, _)
Alone(q, answers) ==
    IF answers = << >>
    THEN LET s == Begin(q) IN [fr |-> s.fr, reqs |-> s.req]
    ELSE LET before == Alone(q, SubSeq(answers, 1, Len(answers) - 1))
             s == Resume(before.fr, answers[Len(answers)])
         IN [fr |-> s.fr, reqs |-> before.reqs \o s.req]

\* the requests on the wire that call r issued
LogOf(r) == SelectSeq(conc.log, LAMBDA e : e.run = r)

\* C13: concurrent resolve runs, for the same or different track ids, share
\* no mutable state: under every interleaving each run issues the requests
\* and gives the outcome it would alone on the same responses, and each of
\* its requests goes out on its own (none coalesced, none suppressed).
C13_RunsIndependent ==
    \A r \in Runs :
        conc.started[r] =>
            LET a == Alone(conc.quality, conc.answers[r])
            IN /\ LogOf(r) = Sent(r, a.reqs)
               /\ conc.result[r] = ResultOf(a.fr)

\* both calls for the same track, interleaved, one on a full candidate and
\* one rescued after a preview, both ended
C13_Witness ==
    /\ conc.ids = << 1, 1 >>
    /\ conc.quality = "higher"
    /\ conc.result[1] # None /\ conc.result[2] # None
    /\ conc.result[1].outcome = "stream" /\ conc.result[2].outcome = "stream"
    /\ Len(conc.answers[1]) = 1
    /\ Len(conc.answers[2]) = 3
    /\ Len(conc.log) = 4
    /\ conc.log[1].run = 2 /\ conc.log[2].run = 1 /\ conc.log[3].run = 2

\* the item ids of the tracks a call returned
C21_ReturnedIds == [i \in 1..Len(ret.tracks) |-> ret.tracks[i].item_id]

\* the item ids of the playlist's tracks at positions [50p, 50p + 50)
C21_ExpectedIds(n, p) ==
    LET last == IF 50 * p + 50 < n THEN 50 * p + 50 ELSE n
    IN [i \in 1..(IF last > 50 * p THEN last - 50 * p ELSE 0) |-> ToString(50 * p + i)]

\* C21: get_playlist_tracks returns at most 50 tracks, and when the upstream
\* ignores limit / offset and returns the whole playlist, page p returns
\* exactly the tracks at positions [50p, 50p + 50): the pages in order list
\* every track once and a page past the end is empty.
C21_PageSlices ==
    (arg # None /\ arg.op = "playlist" /\ ret # None) =>
        /\ Len(ret.tracks) <= 50
        /\ (arg.first = "all" /\ arg.second = "all"
              => C21_ReturnedIds = C21_ExpectedIds(arg.n, arg.page))

\* the keys the rescue merge assigns
C22_MergedKeys == {"url", "br", "type", "size", "md5"}

\* C22: the rescue merge changes only url, br, type, size and md5: after a
\* rescue with a URL the returned sample rate and duration are those of the
\* retained preview candidate, and 44100 / absent when nothing was retained.
C22_MergeFrame ==
    (pc = "done" /\ RescueHit) =>
        /\ \A k \in DOMAIN song_data \ C22_MergedKeys :
             first_preview # None /\ k \in DOMAIN first_preview
                /\ song_data[k] = first_preview[k]
        /\ first_preview # None =>
             \A k \in DOMAIN first_preview \ C22_MergedKeys :
                 k \in DOMAIN song_data /\ song_data[k] = first_preview[k]
        /\ outcome = "stream"
        /\ stream.sample_rate =
             IF first_preview # None /\ "sr" \in DOMAIN first_preview
             THEN first_preview["sr"] ELSE 44100
        /\ stream.duration =
             IF first_preview # None /\ "time" \in DOMAIN first_preview
             THEN first_preview["time"] \div 1000 ELSE NoneInt

\* a preview with its own sample rate and duration, rescued by a result that
\* carries other ones
C22_Witness ==
    /\ pc = "done"
    /\ RescueHit
    /\ first_preview # None
    /\ "sr" \in DOMAIN first_preview /\ "time" \in DOMAIN first_preview
    /\ "sr" \in DOMAIN match_data /\ match_data["sr"] # first_preview["sr"]
    /\ stream.sample_rate = first_preview["sr"]
    /\ stream.duration = first_preview["time"] \div 1000
    /\ stream.path = match_data["url"]

\* the request at position i of a login flow: key, create, then checks
C23_OrderedRequest(i) ==
    IF i = 1 THEN "/login/qr/key"
    ELSE IF i = 2 THEN "/login/qr/create"
    ELSE "/login/qr/check"

\* the response carried code 200
C23_Answered200(raw) ==
    raw # None /\ raw.kind = "json" /\ Get(raw.body, "code", NoCode) = 200

\* C23: the login flow issues key, create, check in this order: create only
\* after key was answered with code 200, check only after create was answered
\* with code 200 and a non-empty QR URL, and nothing at all when the API URL
\* or the session id is missing.
C23_RequestOrder ==
    /\ \A i \in 1..Len(qrequests) : qrequests[i] = C23_OrderedRequest(i)
    /\ (Len(qrequests) >= 2 => C23_Answered200(qkey_raw))
    /\ (Len(qrequests) >= 3 =>
          /\ C23_Answered200(qcreate_raw)
          /\ "data" \in DOMAIN qcreate_raw.body
          /\ Get(qcreate_raw.body.data, "qrurl", "") # "")
    /\ (Get(qvalues, "api_url", "") \in {"", "/"} \/ Get(qvalues, "session_id", "") = ""
          => qrequests = << >>)

\* key and create answered 200, then two checks
C23_Witness ==
    /\ qrequests = << "/login/qr/key", "/login/qr/create", "/login/qr/check", "/login/qr/check" >>
    /\ C23_Answered200(qkey_raw)
    /\ C23_Answered200(qcreate_raw)
    /\ qr_url = "q"
    /\ qi = 2

\* C25: a check poll answered 803 with an empty or missing cookie ends the
\* flow at that poll with a null result; no further check request is issued.
C25_EmptyCookieTerminal ==
    (LastCode = 803 /\ LastCookie = "") =>
        /\ qpc = "done"
        /\ qresult = QNull
        /\ qfail = "empty_cookie"
        /\ Len(CheckReqs) = qi

\* 803 without a cookie field at the second poll
C25_Witness ==
    /\ qhist = << 801, 803 >>
    /\ qlast.kind = "json"
    /\ "cookie" \notin DOMAIN qlast.body
    /\ qpc = "done"
    /\ qresult = QNull
    /\ qi = 2
    /\ Len(CheckReqs) = 2

\* the login succeeded: the last poll was answered 803 with a cookie
C24_LoginSucceeded == LastCode = 803 /\ LastCookie # ""

\* C24: handling the QR-login action replaces the stored cookie only by the
\* non-empty cookie of a successful login; after a failed or timed-out login
\* the stored cookie and every other value are as they were.
C24_CookieStoredOnSuccessOnly ==
    qpc = "done" =>
        /\ config_values # {}
        /\ \A e \in config_values :
             /\ DOMAIN e.after \ {"cookie"} = DOMAIN e.before \ {"cookie"}
             /\ \A k \in DOMAIN e.before \ {"cookie"} : e.after[k] = e.before[k]
             /\ IF C24_LoginSucceeded
                THEN "cookie" \in DOMAIN e.after /\ e.after["cookie"] = LastCookie
                ELSE e.after = e.before

\* an expired code leaves the cookie stored before in place
C24_Witness ==
    /\ qpc = "done"
    /\ qhist = << 801, 800 >>
    /\ qresult = QNull
    /\ \E e \in config_values :
         /\ "cookie" \in DOMAIN e.before
         /\ e.before["cookie"] = "OLD"
         /\ e.before["api_url"] = "http://api/"
         /\ e.after = e.before

\* C26: the classifier of _get_real_audio_quality and the classification in
\* get_stream_details agree: for every candidate (container tag, bit rate)
\* both give the same codec and the same bit depth.
C26_ClassifiersAgree ==
    (arg # None /\ arg.op = "quality" /\ DOMAIN ret = {"meta", "stream"}) =>
        /\ ret["meta"].content_type = ret["stream"].content_type
        /\ ret["meta"].bit_depth = ret["stream"].bit_depth

\* flac at exactly 1,000,000 bps: FLAC / 16 bit on both paths
C26_Witness ==
    /\ arg # None /\ arg.op = "quality"
    /\ DOMAIN ret = {"meta", "stream"}
    /\ Get(arg.sd, "type", "") = "FLAC"
    /\ Get(arg.sd, "br", 0) = 1000000
    /\ ret["meta"].content_type = "FLAC" /\ ret["meta"].bit_depth = 16
    /\ ret["stream"].content_type = "FLAC" /\ ret["stream"].bit_depth = 16

====
